---- MODULE Spec2Model ----
(***************************************************************************)
(* nest_joblib: the nested-backend installer of src/nest_joblib/_main.py,  *)
(* over joblib.parallel's two registries (BACKENDS, EXTERNAL_BACKENDS) and *)
(* its active-backend selector.                                            *)
(*                                                                         *)
(* Names are Python strings, modelled as TLA+ strings: "nested-" + name is *)
(* string concatenation and re.match("nested-", name) is a prefix test.    *)
(* A dict is the sequence of its items in insertion order (Python dicts    *)
(* iterate in insertion order; apply iterates a snapshot of them).         *)
(* A class is a record of its __name__, its method resolution order and a  *)
(* serial number that stands for its identity: every call of type(...)     *)
(* makes a class that no earlier class is identical to, the k-th class     *)
(* synthesized from a base having serial k.                                *)
(*                                                                         *)
(* Environment: multiprocessing is available (joblib registers loky and    *)
(* makes it DEFAULT_BACKEND at import), lazy factories find their optional *)
(* dependency, and parallel_backend is used without `with`, as apply does. *)
(***************************************************************************)
EXTENDS Integers, Sequences, FiniteSets, TLC

VARIABLES
    BACKENDS,           \* joblib.parallel.BACKENDS: items in insertion order
    patched,            \* type(joblib.parallel.BACKENDS) is _NestedBackendDict
    EXTERNAL_BACKENDS,  \* joblib.parallel.EXTERNAL_BACKENDS: name -> lazy factory
    active,             \* <<>>: no backend selected; <<b>>: b is the selected instance
    chain,              \* the backends of successive nesting depths, outermost first
    classCount,         \* per base class name: how many classes type(...) has
                        \* synthesized from it so far
    last                \* the operation that led to this state, and how it ended

vars == <<BACKENDS, patched, EXTERNAL_BACKENDS, active, chain, classCount, last>>

(* ------------------------------ bounds --------------------------------- *)

\* No operation runs that would take the number of classes synthesized from one
\* base class above this.
MaxClasses == 2

\* The deepest nesting the chain of nested resolutions is followed to.
MaxDepth == 3

(* ------------------------------ strings -------------------------------- *)

\* The reserved prefix of _main.py: "nested-" in re.match and in the f-strings.
Prefix == "nested-"

StartsWith(s, p) == Len(s) >= Len(p) /\ SubSeq(s, 1, Len(p)) = p

\* re.match("nested-", name) is not None
IsNestedName(name) == StartsWith(name, Prefix)

\* f"nested-{name}"
NestedName(name) == Prefix \o name

(* ------------------------------- dicts --------------------------------- *)

Item(k, v) == [k |-> k, v |-> v]

Keys(d) == {d[i].k : i \in DOMAIN d}

Has(d, k) == \E i \in DOMAIN d : d[i].k = k

IndexOf(d, k) == CHOOSE i \in DOMAIN d : d[i].k = k

Get(d, k) == d[IndexOf(d, k)].v

\* dict.__setitem__: an existing key keeps its place, a new key goes last.
DictSet(d, k, v) ==
    IF Has(d, k)
    THEN [i \in DOMAIN d |-> IF d[i].k = k THEN Item(k, v) ELSE d[i]]
    ELSE Append(d, Item(k, v))

(* ------------------------------ classes -------------------------------- *)

MixinName == "NestedBackendMixin"

Class(name, mro, serial) ==
    [kind |-> "class", name |-> name, mro |-> mro, serial |-> serial]

\* A class of the library or of another package: its mro is itself, then the base.
LibraryClass(name) == Class(name, <<name, "ParallelBackendBase">>, 0)

ThreadingBackend == LibraryClass("ThreadingBackend")
SequentialBackend == LibraryClass("SequentialBackend")
LokyBackend == LibraryClass("LokyBackend")
DaskDistributedBackend == LibraryClass("DaskDistributedBackend")
RayBackend == LibraryClass("RayBackend")

\* A backend factory that is a callable but not a class; calling it makes a
\* ThreadingBackend.
FactoryFunction ==
    [kind |-> "func", name |-> "make_backend", mro |-> <<>>, serial |-> 0]

\* issubclass(backend_class, NestedBackendMixin), for a class
IsNestedClass(c) == \E i \in DOMAIN c.mro : c.mro[i] = MixinName

(* ----------------------------- instances ------------------------------- *)

\* nesting_level of a backend made without one: ParallelBackendBase's default None.
NoLevel == -1

\* A backend instance: its class, its nesting_level and its identity.
Instance(cls, level, oid) == [cls |-> cls, nesting_level |-> level, oid |-> oid]

\* What calling a registered factory makes: a class makes an instance of itself.
ProductClass(factory) ==
    IF factory.kind = "class" THEN factory ELSE ThreadingBackend

\* NestedBackendMixin.get_nested_backend(self, *args, **kwargs):
\* return self.__class__(), None.  args is ignored; newOid is the new object.
NestedBackendMixin_get_nested_backend(self, args, newOid) ==
    [backend |-> Instance(self.cls, NoLevel, newOid), hint |-> "None"]

\* joblib's ParallelBackendBase.get_nested_backend, as quoted in apply's docstring:
\* threading for the first level of nesting, sequential beyond.
Base_get_nested_backend(self, newOid) ==
    LET nesting_level == (IF self.nesting_level = NoLevel THEN 0
                          ELSE self.nesting_level) + 1
    IN  IF nesting_level > 1
        THEN [backend |-> Instance(SequentialBackend, nesting_level, newOid),
              hint |-> "None"]
        ELSE [backend |-> Instance(ThreadingBackend, nesting_level, newOid),
              hint |-> "None"]

\* Mutant: the bases given as (backend_class, NestedBackendMixin), so that the
\* base class's method is found first.
get_nested_backend_BaseFirst(self, args, newOid) ==
    Base_get_nested_backend(self, newOid)

\* Method resolution: NestedBackendMixin comes before the base class in the mro
\* of every class that has it, so its get_nested_backend is the one that runs.
get_nested_backend(self, args, newOid) ==
    IF IsNestedClass(self.cls)
    THEN NestedBackendMixin_get_nested_backend(self, args, newOid)
    ELSE Base_get_nested_backend(self, newOid)

(* ----------------------------- derivation ------------------------------ *)

\* _create_nested_backend without its issubclass test: it wraps every class,
\* a nested variant too.
_create_nested_backend_AlwaysWraps(backend_class, n) ==
    IF backend_class.kind # "class"
    THEN [exc |-> "TypeError", cls |-> backend_class, n |-> n]
    ELSE [exc |-> "None",
          cls |-> Class("Nested" \o backend_class.name,
                        <<"Nested" \o backend_class.name, MixinName>>
                            \o backend_class.mro,
                        IF backend_class.name \in DOMAIN n
                        THEN n[backend_class.name] + 1 ELSE 1),
          n |-> IF backend_class.name \in DOMAIN n
                THEN [n EXCEPT ![backend_class.name] = @ + 1] ELSE n]

\* _create_nested_backend(backend_class), with n[b] classes synthesized from
\* each base b before the call.  exc is the exception raised ("None": it returned), cls the class
\* returned and n the number of classes synthesized after the call.
\* issubclass raises TypeError when its first argument is not a class.
_create_nested_backend(backend_class, n) ==
    IF backend_class.kind # "class"
    THEN [exc |-> "TypeError", cls |-> backend_class, n |-> n]
    ELSE IF IsNestedClass(backend_class)
    THEN [exc |-> "None", cls |-> backend_class, n |-> n]
    ELSE [exc |-> "None",
          cls |-> Class("Nested" \o backend_class.name,
                        <<"Nested" \o backend_class.name, MixinName>>
                            \o backend_class.mro,
                        n[backend_class.name] + 1),
          n |-> [n EXCEPT ![backend_class.name] = @ + 1]]

\* D is what _create_nested_backend returns for T (whatever its identity).
IsNestedVariantOf(D, T) ==
    /\ T.kind = "class"
    /\ D.kind = "class"
    /\ IF IsNestedClass(T)
       THEN D = T
       ELSE /\ D.name = "Nested" \o T.name
            /\ D.mro = <<"Nested" \o T.name, MixinName>> \o T.mro

(* ---------------------------- registration ----------------------------- *)

\* The registry part of the state that a registration threads through:
\* B the dict, n the class count, exc the exception that ended it.
Reg(B, n, exc) == [B |-> B, n |-> n, exc |-> exc]

\* Mutant: the prefix test inverted (`is not None`).
NestedBackendDict_setitem_Inverted(st, key, value) ==
    IF IsNestedName(key)
    THEN LET r == _create_nested_backend(value, st.n)
         IN  IF r.exc # "None"
             THEN Reg(st.B, r.n, r.exc)
             ELSE Reg(DictSet(DictSet(st.B, NestedName(key), r.cls), key, value),
                      r.n, "None")
    ELSE Reg(DictSet(st.B, key, value), st.n, "None")

\* _NestedBackendDict.__setitem__(self, key, value).  Every key of the model is
\* a str.  A raising derivation leaves before either super().__setitem__.
NestedBackendDict_setitem(st, key, value) ==
    IF ~IsNestedName(key)
    THEN LET r == _create_nested_backend(value, st.n)
         IN  IF r.exc # "None"
             THEN Reg(st.B, r.n, r.exc)
             ELSE Reg(DictSet(DictSet(st.B, NestedName(key), r.cls), key, value),
                      r.n, "None")
    ELSE Reg(DictSet(st.B, key, value), st.n, "None")

\* Mutant: __setitem__ patched on the class of every registry, whether or not
\* apply was asked to auto-register.
BackendsSetItem_AlwaysIntercepts(st, isPatched, name, factory) ==
    NestedBackendDict_setitem(st, name, factory)

\* BACKENDS[name] = factory, on whichever dict type BACKENDS has.
BackendsSetItem(st, isPatched, name, factory) ==
    IF isPatched
    THEN NestedBackendDict_setitem(st, name, factory)
    ELSE Reg(DictSet(st.B, name, factory), st.n, "None")

\* joblib.parallel.register_parallel_backend(name, factory), make_default aside.
register_parallel_backend(st, isPatched, name, factory) ==
    BackendsSetItem(st, isPatched, name, factory)

\* A lazy registration callback such as joblib's _register_dask: called, it
\* registers cls under the name registers.
LazyFactory(registers, cls) == [registers |-> registers, cls |-> cls]

InvokeLazyFactory(st, isPatched, f) ==
    register_parallel_backend(st, isPatched, f.registers, f.cls)

(* ----------------------------- selection ------------------------------- *)

\* joblib.parallel.parallel_backend(name), its name resolution: an unregistered
\* name with a lazy factory has the factory called, any other unregistered name
\* is "Invalid backend" (ValueError); then BACKENDS[name] is looked up and
\* called, and the instance takes the current nesting level (0 at top level).
\* inst is <<>> when it raised.
SelectByName(B, E, isPatched, n, name) ==
    LET st0 == Reg(B, n, "None")
        st1 == IF Has(B, name) THEN st0
               ELSE IF Has(E, name) THEN InvokeLazyFactory(st0, isPatched, Get(E, name))
               ELSE Reg(B, n, "ValueError")
    IN  IF st1.exc # "None"
        THEN [B |-> st1.B, n |-> st1.n, exc |-> st1.exc, inst |-> <<>>]
        ELSE IF ~Has(st1.B, name)
        THEN [B |-> st1.B, n |-> st1.n, exc |-> "KeyError", inst |-> <<>>]
        ELSE [B |-> st1.B, n |-> st1.n, exc |-> "None",
              inst |-> <<Instance(ProductClass(Get(st1.B, name)), 0, 0)>>]

(* ------------------------------- apply --------------------------------- *)

\* Mutant: the derived class registered under name instead of f"nested-{name}".
RECURSIVE ApplyBackends_Unprefixed(_, _, _, _)
ApplyBackends_Unprefixed(snapshot, i, st, isPatched) ==
    IF i > Len(snapshot) \/ st.exc # "None"
    THEN st
    ELSE IF IsNestedName(snapshot[i].k)
    THEN ApplyBackends_Unprefixed(snapshot, i + 1, st, isPatched)
    ELSE LET r == _create_nested_backend(snapshot[i].v, st.n)
         IN  IF r.exc # "None"
             THEN Reg(st.B, r.n, r.exc)
             ELSE ApplyBackends_Unprefixed(
                      snapshot, i + 1,
                      register_parallel_backend(Reg(st.B, r.n, "None"), isPatched,
                                                snapshot[i].k, r.cls),
                      isPatched)

\* apply, its first loop: for name, backend in deepcopy(BACKENDS).items(), from
\* item i of the snapshot on.  deepcopy copies the dict and hands back the very
\* classes and functions in it.  An exception ends the loop where it is raised.
RECURSIVE ApplyBackends(_, _, _, _)
ApplyBackends(snapshot, i, st, isPatched) ==
    IF i > Len(snapshot) \/ st.exc # "None"
    THEN st
    ELSE IF IsNestedName(snapshot[i].k)
    THEN ApplyBackends(snapshot, i + 1, st, isPatched)
    ELSE LET r == _create_nested_backend(snapshot[i].v, st.n)
         IN  IF r.exc # "None"
             THEN Reg(st.B, r.n, r.exc)
             ELSE ApplyBackends(
                      snapshot, i + 1,
                      register_parallel_backend(Reg(st.B, r.n, "None"), isPatched,
                                                NestedName(snapshot[i].k), r.cls),
                      isPatched)

\* Mutant: the second loop without its prefix test.
RECURSIVE ApplyExternalBackends_NoSkip(_, _, _)
ApplyExternalBackends_NoSkip(snapshot, i, E) ==
    IF i > Len(snapshot)
    THEN E
    ELSE ApplyExternalBackends_NoSkip(
             snapshot, i + 1,
             DictSet(E, NestedName(snapshot[i].k), snapshot[i].v))

\* Mutant: the second loop moving each lazy factory to its prefixed name.
RECURSIVE ApplyExternalBackends_Moves(_, _, _)
ApplyExternalBackends_Moves(snapshot, i, E) ==
    IF i > Len(snapshot)
    THEN E
    ELSE IF IsNestedName(snapshot[i].k)
    THEN ApplyExternalBackends_Moves(snapshot, i + 1, E)
    ELSE ApplyExternalBackends_Moves(
             snapshot, i + 1,
             DictSet(SelectSeq(E, LAMBDA it : it.k # snapshot[i].k),
                     NestedName(snapshot[i].k), snapshot[i].v))

\* Mutant: the second loop left out.
ApplyExternalBackends_NoAlias(snapshot, i, E) == E

\* apply, its second loop: every lazy factory with a name that is not prefixed
\* is stored again, as it is, under the prefixed name.
RECURSIVE ApplyExternalBackends(_, _, _)
ApplyExternalBackends(snapshot, i, E) ==
    IF i > Len(snapshot)
    THEN E
    ELSE IF IsNestedName(snapshot[i].k)
    THEN ApplyExternalBackends(snapshot, i + 1, E)
    ELSE ApplyExternalBackends(
             snapshot, i + 1,
             DictSet(E, NestedName(snapshot[i].k), snapshot[i].v))

\* joblib.parallel.DEFAULT_BACKEND, which nothing here assigns: apply selects by
\* parallel_backend and registrations are made without make_default.
DEFAULT_BACKEND == "loky"

\* Mutant: the library's default name selected as it is.
DefaultNestedName_Unprefixed == DEFAULT_BACKEND

\* The name apply selects when set_default is true.
DefaultNestedName == "nested-loky"

\* Mutant: the selection made whatever set_default is.
ApplyResult_AlwaysSelects(B, E, isPatched, act, n, set_default, auto_register) ==
    LET s1 == ApplyBackends(B, 1, Reg(B, n, "None"), isPatched)
        p1 == isPatched \/ auto_register
        E1 == ApplyExternalBackends(E, 1, E)
        sel == SelectByName(s1.B, E1, p1, s1.n, DefaultNestedName)
    IN  IF s1.exc # "None"
        THEN [B |-> s1.B, E |-> E, patched |-> isPatched, active |-> act,
              n |-> s1.n, exc |-> s1.exc]
        ELSE [B |-> sel.B, E |-> E1, patched |-> p1,
              active |-> IF sel.exc = "None" THEN sel.inst ELSE act,
              n |-> sel.n, exc |-> sel.exc]

\* Mutant: apply(auto_register=False) putting a plain dict back.
ApplyResult_Revocable(B, E, isPatched, act, n, set_default, auto_register) ==
    LET s1 == ApplyBackends(B, 1, Reg(B, n, "None"), isPatched)
        p1 == auto_register
        E1 == ApplyExternalBackends(E, 1, E)
        sel == SelectByName(s1.B, E1, p1, s1.n, DefaultNestedName)
    IN  IF s1.exc # "None"
        THEN [B |-> s1.B, E |-> E, patched |-> isPatched, active |-> act,
              n |-> s1.n, exc |-> s1.exc]
        ELSE IF ~set_default
        THEN [B |-> s1.B, E |-> E1, patched |-> p1, active |-> act,
              n |-> s1.n, exc |-> "None"]
        ELSE [B |-> sel.B, E |-> E1, patched |-> p1,
              active |-> IF sel.exc = "None" THEN sel.inst ELSE act,
              n |-> sel.n, exc |-> sel.exc]

\* The whole of apply(set_default, auto_register) on a state: the registries,
\* the dict type, the class count and the selected backend after it, and the
\* exception it raised, if any.
ApplyResult(B, E, isPatched, act, n, set_default, auto_register) ==
    LET s1 == ApplyBackends(B, 1, Reg(B, n, "None"), isPatched)
        p1 == isPatched \/ auto_register
        E1 == ApplyExternalBackends(E, 1, E)
        sel == SelectByName(s1.B, E1, p1, s1.n, DefaultNestedName)
    IN  IF s1.exc # "None"
        THEN [B |-> s1.B, E |-> E, patched |-> isPatched, active |-> act,
              n |-> s1.n, exc |-> s1.exc]
        ELSE IF ~set_default
        THEN [B |-> s1.B, E |-> E1, patched |-> p1, active |-> act,
              n |-> s1.n, exc |-> "None"]
        ELSE [B |-> sel.B, E |-> E1, patched |-> p1,
              active |-> IF sel.exc = "None" THEN sel.inst ELSE act,
              n |-> sel.n, exc |-> sel.exc]

(* ------------------------------ the state ------------------------------ *)

Op(op, name, set_default, auto_register, exc) ==
    [op |-> op, name |-> name, set_default |-> set_default,
     auto_register |-> auto_register, exc |-> exc]

\* The classes that are not synthesized, by name.
BaseClassNames ==
    {c.name : c \in {ThreadingBackend, SequentialBackend, LokyBackend,
                     DaskDistributedBackend, RayBackend}}

WithinBound(n) == \A b \in BaseClassNames : n[b] <= MaxClasses

\* After `import joblib.parallel` and `import nest_joblib`.
Init ==
    /\ BACKENDS = << Item("threading", ThreadingBackend),
                     Item("sequential", SequentialBackend),
                     Item("loky", LokyBackend) >>
    /\ patched = FALSE
    /\ EXTERNAL_BACKENDS = << Item("dask", LazyFactory("dask", DaskDistributedBackend)) >>
    /\ active = <<>>
    /\ chain = <<>>
    /\ classCount = [b \in BaseClassNames |-> 0]
    /\ last = Op("import", "", FALSE, FALSE, "None")

\* What other code registers during set-up: ray's backend class as register_ray
\* does, and a class under a name that already carries the prefix.  (Only classes:
\* FactoryFunction, on which derivation raises, is registered in no behaviour of
\* the two specifications below.)
RegisterInputs == {<<"ray", RayBackend>>, <<"nested-ray", RayBackend>>}

\* The names selected: a registered one, the prefixed forms of a lazy backend and
\* of a backend registered later, and a name nothing knows.
SelectNames ==
    {"loky", "nested-dask", "nested-ray", "nested-unknown"}

\* Registry mutation and selection happen at set-up, with no parallel work under way.
Idle == chain = <<>>

(* ------------------------------ actions -------------------------------- *)

\* nest_joblib.apply(set_default=..., auto_register=...)
Apply(set_default, auto_register) ==
    \E r \in {ApplyResult(BACKENDS, EXTERNAL_BACKENDS, patched, active, classCount,
                         set_default, auto_register)} :
        /\ Idle
        /\ WithinBound(r.n)
        /\ BACKENDS' = r.B
        /\ EXTERNAL_BACKENDS' = r.E
        /\ patched' = r.patched
        /\ active' = r.active
        /\ classCount' = r.n
        /\ last' = Op("apply", "", set_default, auto_register, r.exc)
        /\ UNCHANGED chain

\* joblib.parallel.register_parallel_backend(name, factory), called by other code
\* (ray's register_ray, a user).
Register(name, factory) ==
    \E r \in {register_parallel_backend(Reg(BACKENDS, classCount, "None"), patched,
                                       name, factory)} :
        /\ Idle
        /\ WithinBound(r.n)
        /\ BACKENDS' = r.B
        /\ classCount' = r.n
        /\ last' = Op("register", name, FALSE, FALSE, r.exc)
        /\ UNCHANGED <<patched, EXTERNAL_BACKENDS, active, chain>>

\* joblib.parallel.EXTERNAL_BACKENDS[name](): the lazy factory called directly.
InvokeExternal(name) ==
    \E r \in {InvokeLazyFactory(Reg(BACKENDS, classCount, "None"), patched,
                               Get(EXTERNAL_BACKENDS, name))} :
        /\ Idle
        /\ Has(EXTERNAL_BACKENDS, name)
        /\ WithinBound(r.n)
        /\ BACKENDS' = r.B
        /\ classCount' = r.n
        /\ last' = Op("invoke_external", name, FALSE, FALSE, r.exc)
        /\ UNCHANGED <<patched, EXTERNAL_BACKENDS, active, chain>>

\* joblib.parallel.parallel_backend(name): select the active backend by name.
Select(name) ==
    \E r \in {SelectByName(BACKENDS, EXTERNAL_BACKENDS, patched, classCount, name)} :
        /\ Idle
        /\ WithinBound(r.n)
        /\ BACKENDS' = r.B
        /\ classCount' = r.n
        /\ active' = IF r.exc = "None" THEN r.inst ELSE active
        /\ last' = Op("select", name, FALSE, FALSE, r.exc)
        /\ UNCHANGED <<patched, EXTERNAL_BACKENDS, chain>>

\* joblib.parallel.get_active_backend(): the selected instance, or a new instance
\* of the default backend at nesting level 0.
ActiveBackend ==
    IF active # <<>> THEN active[1]
    ELSE Instance(ProductClass(Get(BACKENDS, DEFAULT_BACKEND)), 0, 0)

\* A top-level Parallel call starts under the active backend (tests' _nested(0, n)).
StartParallel ==
    /\ Idle
    /\ chain' = << [backend |-> ActiveBackend, hint |-> "n_jobs"] >>
    /\ last' = Op("parallel", "", FALSE, FALSE, "None")
    /\ UNCHANGED <<BACKENDS, patched, EXTERNAL_BACKENDS, active, classCount>>

\* The arguments nested resolution is called with: none, or a nesting level.
NestArgs == {<<>>, <<1>>, <<2>>}

\* A task of the innermost Parallel call starts a Parallel call of its own: the
\* backend it runs under is the innermost backend's get_nested_backend(*args).
\* The base method takes no arguments.
Nest(args) ==
    /\ chain # <<>>
    /\ Len(chain) <= MaxDepth
    /\ IsNestedClass(chain[Len(chain)].backend.cls) \/ args = <<>>
    /\ chain' = Append(chain, get_nested_backend(chain[Len(chain)].backend, args,
                                                 Len(chain)))
    /\ last' = Op("nest", IF args = <<>> THEN "" ELSE "nesting_level", FALSE, FALSE,
                  "None")
    /\ UNCHANGED <<BACKENDS, patched, EXTERNAL_BACKENDS, active, classCount>>

\* All the nested calls return.
Return ==
    /\ chain # <<>>
    /\ chain' = <<>>
    /\ last' = Op("return", "", FALSE, FALSE, "None")
    /\ UNCHANGED <<BACKENDS, patched, EXTERNAL_BACKENDS, active, classCount>>

\* Set-up: the installer, other code's registrations, and selection by name.
Next ==
    \/ \E set_default \in BOOLEAN, auto_register \in BOOLEAN :
           Apply(set_default, auto_register)
    \/ \E in \in RegisterInputs : Register(in[1], in[2])
    \/ \E name \in Keys(EXTERNAL_BACKENDS) : InvokeExternal(name)
    \/ \E name \in SelectNames : Select(name)

Spec == Init /\ [][Next]_vars

\* Nested parallel calls, under whatever backend the set-up before them selected.
NextNesting ==
    \/ \E set_default \in BOOLEAN, auto_register \in BOOLEAN :
           Apply(set_default, auto_register)
    \/ \E name \in SelectNames : Select(name)
    \/ StartParallel
    \/ \E args \in NestArgs : Nest(args)
    \/ Return

SpecNesting == Init /\ [][NextNesting]_vars

\* What other code registers under "ray" in the registry behaviours: ray's class,
\* the class that "loky" is registered with too, a factory that is a function
\* and not a class (register_parallel_backend takes any callable that makes a
\* backend), and a class that is a nested variant already.
RegistryInputs ==
    {<<"ray", RayBackend>>, <<"ray", LokyBackend>>, <<"ray", FactoryFunction>>}
        \cup {<<"ray", Get(BACKENDS, k)>> :
                  k \in {x \in {DefaultNestedName} : Has(BACKENDS, x)}}

\* Registrations of every kind of factory, between and after calls of apply.
NextRegistry ==
    \/ \E set_default \in BOOLEAN, auto_register \in BOOLEAN :
           Apply(set_default, auto_register)
    \/ \E in \in RegistryInputs : Register(in[1], in[2])
    \/ \E name \in Keys(EXTERNAL_BACKENDS) : InvokeExternal(name)

SpecRegistry == Init /\ [][NextRegistry]_vars

(* ------------------------------ claims --------------------------------- *)

\* C1 (coverage): whenever apply returns, every name that was in BACKENDS before
\* the call and does not start with "nested-" has an entry "nested-" + name, and
\* that entry holds the nested variant of the type the name was registered with.
C1_Coverage ==
    [][(last'.op = "apply" /\ last'.exc = "None") =>
          \A i \in DOMAIN BACKENDS :
              ~IsNestedName(BACKENDS[i].k) =>
                  /\ Has(BACKENDS', NestedName(BACKENDS[i].k))
                  /\ IsNestedVariantOf(Get(BACKENDS', NestedName(BACKENDS[i].k)),
                                       BACKENDS[i].v)]_vars

\* apply(auto_register=False) has just returned on a registry that held ray: with
\* no interception installed, only apply's loop can have made NestedRayBackend.
C1_Witness ==
    /\ last.op = "apply" /\ last.exc = "None" /\ ~last.auto_register
    /\ ~patched
    /\ Has(BACKENDS, "ray") /\ Has(BACKENDS, "nested-ray")
    /\ Get(BACKENDS, "nested-ray").name = "NestedRayBackend"

\* C2 (no degrade): below an instance of a derived class D, the backend of every
\* deeper nesting level is a new instance of exactly D, returned with None, and
\* never the threading or sequential fallback, whatever arguments are passed.
C2_NoDegrade ==
    \A i \in 1..(Len(chain) - 1) :
        IsNestedClass(chain[i].backend.cls) =>
            /\ chain[i + 1].backend.cls = chain[i].backend.cls
            /\ chain[i + 1].backend.oid # chain[i].backend.oid
            /\ chain[i + 1].hint = "None"
            /\ chain[i + 1].backend.cls \notin {ThreadingBackend, SequentialBackend}

\* Nested resolution has been followed to the full depth below a derived class,
\* the last time with a nesting-level argument.
C2_Witness ==
    /\ Len(chain) = MaxDepth + 1
    /\ IsNestedClass(chain[1].backend.cls)
    /\ last.op = "nest" /\ last.name = "nesting_level"

\* C3 (idempotent naming): no key of BACKENDS or of EXTERNAL_BACKENDS ever starts
\* with "nested-nested-", whatever applies, registrations and lazy-factory calls
\* have run (none of which is given a name that starts with "nested-nested-").
C3_NoDoublePrefix ==
    /\ \A k \in Keys(BACKENDS) : ~StartsWith(k, NestedName(Prefix))
    /\ \A k \in Keys(EXTERNAL_BACKENDS) : ~StartsWith(k, NestedName(Prefix))

\* A second apply has just returned, on registries that already held prefixed
\* names of both kinds.
C3_Witness ==
    /\ last.op = "apply"
    /\ classCount["LokyBackend"] = 2
    /\ Has(EXTERNAL_BACKENDS, "nested-dask")
    /\ Has(BACKENDS, "nested-dask") /\ Has(BACKENDS, "nested-ray")

\* apply(auto_register=True) has installed the interception (patched) and m is a
\* key that was absent before this step and is present after it.
NewlyRegistered(m) == ~Has(BACKENDS, m) /\ Has(BACKENDS', m)

\* C4 (auto-registration): once apply(auto_register=True) has returned, no state
\* has a name without the prefix registered without its "nested-" counterpart; a
\* registration of T under such a name m stores T under m and the nested variant
\* of T under "nested-" + m, and the prefixed entry is inserted no later than m.
C4_AutoRegistration ==
    /\ [](patched => \A k \in Keys(BACKENDS) :
                         ~IsNestedName(k) => Has(BACKENDS, NestedName(k)))
    /\ [][\A in \in RegisterInputs :
              (patched /\ ~IsNestedName(in[1]) /\ Register(in[1], in[2])) =>
                  /\ last'.exc = "None"
                  /\ Get(BACKENDS', in[1]) = in[2]
                  /\ Has(BACKENDS', NestedName(in[1]))
                  /\ IsNestedVariantOf(Get(BACKENDS', NestedName(in[1])), in[2])
                  /\ NewlyRegistered(in[1]) /\ NewlyRegistered(NestedName(in[1])) =>
                         IndexOf(BACKENDS', NestedName(in[1]))
                             < IndexOf(BACKENDS', in[1])]_vars

\* ray has just been registered through the interception.
C4_Witness ==
    /\ patched
    /\ last.op = "register" /\ last.name = "ray" /\ last.exc = "None"
    /\ Get(BACKENDS, "ray") = RayBackend
    /\ Get(BACKENDS, "nested-ray").name = "NestedRayBackend"
    /\ IndexOf(BACKENDS, "nested-ray") < IndexOf(BACKENDS, "ray")

\* The non-prefixed names that other code registers backends under.
RegisteredLater == {in[1] : in \in {x \in RegisterInputs : ~IsNestedName(x[1])}}

\* Neither m nor "nested-" + m is known to either registry.
IsNewName(m) ==
    /\ ~Has(BACKENDS, m) /\ ~Has(BACKENDS, NestedName(m))
    /\ ~Has(EXTERNAL_BACKENDS, m) /\ ~Has(EXTERNAL_BACKENDS, NestedName(m))

\* name is not registered and parallel_backend(name) raises the unknown-name error.
Unselectable(name) ==
    /\ ~Has(BACKENDS, name)
    /\ SelectByName(BACKENDS, EXTERNAL_BACKENDS, patched, classCount, name).exc
           = "ValueError"

\* C5 as stated: after any apply(auto_register=False), whatever came before it, a
\* backend registered under a new non-prefixed name m has no selectable
\* "nested-" + m: the name is unregistered and selecting it raises ValueError.
\* (Stated for the registration that follows the call.)
C5_AsStated ==
    [][\A in \in RegisterInputs :
           (/\ last.op = "apply" /\ ~last.auto_register /\ last.exc = "None"
            /\ ~IsNestedName(in[1]) /\ IsNewName(in[1])
            /\ Register(in[1], in[2])) =>
               Unselectable(NestedName(in[1]))']_vars

\* C5 amended: while no apply(auto_register=True) has run (the interception is
\* not installed), so after every apply(auto_register=False) of such a process, a
\* backend registered under a new non-prefixed name m has no selectable
\* "nested-" + m and selecting it raises ValueError; this lasts until apply runs
\* again or "nested-" + m is itself registered.
C5_WithoutInterception ==
    /\ [][\A in \in RegisterInputs :
              (/\ ~patched
               /\ ~IsNestedName(in[1]) /\ IsNewName(in[1])
               /\ Register(in[1], in[2])) =>
                  Unselectable(NestedName(in[1]))']_vars
    /\ [][\A m \in RegisteredLater :
              (/\ ~patched
               /\ Has(BACKENDS, m) /\ Unselectable(NestedName(m))
               /\ last'.op # "apply"
               /\ ~(last'.op = "register" /\ last'.name = NestedName(m))) =>
                  Unselectable(NestedName(m))']_vars

\* After apply(auto_register=False) alone (nested-loky is there, the interception
\* is not), ray was registered and selecting nested-ray has just raised ValueError.
C5_Witness ==
    /\ ~patched /\ Has(BACKENDS, "nested-loky")
    /\ Has(BACKENDS, "ray") /\ ~Has(BACKENDS, "nested-ray")
    /\ last.op = "select" /\ last.name = "nested-ray" /\ last.exc = "ValueError"

\* C6 (lazy factories covered whatever auto_register is): once apply has returned
\* (it stored m's factory under "nested-" + m), calling the lazy factory of a
\* non-prefixed name m leaves the nested variant of m's type registered under
\* "nested-" + m.
C6_LazyCovered ==
    [][(/\ last'.op = "invoke_external" /\ last'.exc = "None"
        /\ ~IsNestedName(last'.name)
        /\ Has(EXTERNAL_BACKENDS, NestedName(last'.name))) =>
           /\ Has(BACKENDS', last'.name)
           /\ Has(BACKENDS', NestedName(last'.name))
           /\ IsNestedVariantOf(Get(BACKENDS', NestedName(last'.name)),
                                Get(BACKENDS', last'.name))]_vars

\* C7 (lazy selection after apply()): with the interception installed by apply,
\* selecting "nested-" + m for a lazy backend m that is not registered yet
\* succeeds: afterwards m and "nested-" + m are registered and the active backend
\* is an instance of the class under "nested-" + m, the nested variant of m's.
\* (The lazy factories of the model are those present at every apply.)
C7_LazySelection ==
    [][\A m \in Keys(EXTERNAL_BACKENDS) :
           (/\ patched
            /\ ~IsNestedName(m)
            /\ ~Has(BACKENDS, m) /\ ~Has(BACKENDS, NestedName(m))
            /\ last'.op = "select" /\ last'.name = NestedName(m)) =>
               /\ last'.exc = "None"
               /\ Has(BACKENDS', m) /\ Has(BACKENDS', NestedName(m))
               /\ active' # <<>>
               /\ active'[1].cls = Get(BACKENDS', NestedName(m))
               /\ IsNestedVariantOf(active'[1].cls, Get(BACKENDS', m))]_vars

\* nested-dask has just been selected and its selection registered dask: only a
\* lazy factory registers dask, and only the selection of nested-dask both calls
\* one and makes a NestedDaskDistributedBackend the active backend in one step.
C7_Witness ==
    /\ patched
    /\ last.op = "select" /\ last.name = "nested-dask" /\ last.exc = "None"
    /\ classCount["DaskDistributedBackend"] = 1
    /\ Has(BACKENDS, "dask")
    /\ active # <<>> /\ active[1].cls = Get(BACKENDS, "nested-dask")
    /\ active[1].cls.name = "NestedDaskDistributedBackend"

\* C8 (no new failure mode): a selection of a prefixed name that fails, fails with
\* the library's unknown-name error (ValueError) and with no other exception.
C8_OnlyUnknownNameError ==
    (last.op = "select" /\ IsNestedName(last.name) /\ last.exc # "None") =>
        last.exc = "ValueError"

\* C9 (default selection): whenever apply(set_default=True) returns, the active
\* backend is an instance of the class registered under "nested-loky", which is
\* the nested variant of the class registered under the default name "loky".
C9_DefaultSelection ==
    (last.op = "apply" /\ last.set_default /\ last.exc = "None") =>
        /\ active # <<>>
        /\ Has(BACKENDS, NestedName(DEFAULT_BACKEND))
        /\ active[1].cls = Get(BACKENDS, NestedName(DEFAULT_BACKEND))
        /\ IsNestedVariantOf(active[1].cls, Get(BACKENDS, DEFAULT_BACKEND))

\* A second apply(set_default=True) has just returned: the backend active before
\* it was another one (that of the first apply, or one selected by name).
C9_Witness ==
    /\ last.op = "apply" /\ last.set_default /\ last.exc = "None"
    /\ active # <<>>
    /\ active[1].cls.name = "NestedLokyBackend" /\ active[1].cls.serial = 2

\* C10 (frame): apply(set_default=False) leaves the active backend as it was,
\* whether none was selected or an earlier apply or selection had set one.
C10_DefaultUnchanged ==
    [][(last'.op = "apply" /\ ~last'.set_default) => active' = active]_vars

\* apply(set_default=False) has just run a second time, and the backend that the
\* first apply, with set_default=True, selected is still the active one.
C10_Witness ==
    /\ last.op = "apply" /\ ~last.set_default
    /\ classCount["LokyBackend"] = 2
    /\ active # <<>>
    /\ active[1].cls.name = "NestedLokyBackend" /\ active[1].cls.serial = 1

\* C11 (double apply): a call of apply raises no error and leaves the value of
\* every entry of BACKENDS whose name starts with "nested-" as it was before
\* the call.
C11_DoubleApplyNoOp ==
    [][(last'.op = "apply") =>
          /\ last'.exc = "None"
          /\ \A i \in DOMAIN BACKENDS :
                 IsNestedName(BACKENDS[i].k) =>
                     /\ Has(BACKENDS', BACKENDS[i].k)
                     /\ Get(BACKENDS', BACKENDS[i].k) = BACKENDS[i].v]_vars

\* How many times NestedBackendMixin occurs among the bases of a class: the
\* depth of its wrapper chain.
WrapperDepth(c) == Cardinality({i \in DOMAIN c.mro : c.mro[i] = MixinName})

\* C12 (idempotent derivation): for every class T in the registry,
\* _create_nested_backend returns T itself, synthesizing nothing, when T is a
\* nested variant already; applied to its own result it returns that result; and
\* no class in the registry has a wrapper chain deeper than one level.
C12_Idempotent ==
    \A i \in DOMAIN BACKENDS :
        BACKENDS[i].v.kind = "class" =>
            LET T == BACKENDS[i].v
                d == _create_nested_backend(T, classCount)
            IN  /\ IsNestedClass(T) => (d.cls = T /\ d.n = classCount)
                /\ _create_nested_backend(d.cls, d.n)
                       = [exc |-> "None", cls |-> d.cls, n |-> d.n]
                /\ WrapperDepth(T) <= 1
                /\ WrapperDepth(d.cls) = 1

\* A class that is a nested variant already sits under the non-prefixed name
\* "ray", and apply or the intercepted registration has derived from it: the
\* entry "nested-ray" holds that very class.
C12_Witness ==
    /\ last.op \in {"apply", "register"} /\ last.exc = "None"
    /\ Has(BACKENDS, "ray") /\ IsNestedClass(Get(BACKENDS, "ray"))
    /\ Has(BACKENDS, "nested-ray")
    /\ Get(BACKENDS, "nested-ray") = Get(BACKENDS, "ray")

\* C13 (one derivation per base type): when apply has just returned, two names
\* without the prefix that are registered with the same type have the same class
\* under their two prefixed names.
C13_OncePerBaseType ==
    (last.op = "apply" /\ last.exc = "None") =>
        \A i, j \in DOMAIN BACKENDS :
            (/\ ~IsNestedName(BACKENDS[i].k)
             /\ ~IsNestedName(BACKENDS[j].k)
             /\ BACKENDS[i].v = BACKENDS[j].v) =>
                /\ Has(BACKENDS, NestedName(BACKENDS[i].k))
                /\ Has(BACKENDS, NestedName(BACKENDS[j].k))
                /\ Get(BACKENDS, NestedName(BACKENDS[i].k))
                       = Get(BACKENDS, NestedName(BACKENDS[j].k))

\* The step registers the name k: register_parallel_backend is called with it,
\* or the lazy factory that registers it is called.
StepRegisters(k) ==
    \/ last'.op = "register" /\ last'.name = k
    \/ /\ last'.op = "invoke_external"
       /\ Get(EXTERNAL_BACKENDS, last'.name).registers = k

\* C14 (frame): in every step, no key leaves BACKENDS or EXTERNAL_BACKENDS, the
\* lazy factory under every name that does not start with "nested-" stays the
\* same, and the value under a name of BACKENDS that does not start with
\* "nested-" changes only in a step that registers that name.
C14_OriginalsUntouched ==
    [][/\ \A i \in DOMAIN BACKENDS :
              /\ Has(BACKENDS', BACKENDS[i].k)
              /\ (/\ ~IsNestedName(BACKENDS[i].k)
                  /\ Get(BACKENDS', BACKENDS[i].k) # BACKENDS[i].v)
                     => StepRegisters(BACKENDS[i].k)
       /\ \A i \in DOMAIN EXTERNAL_BACKENDS :
              /\ Has(EXTERNAL_BACKENDS', EXTERNAL_BACKENDS[i].k)
              /\ ~IsNestedName(EXTERNAL_BACKENDS[i].k) =>
                     Get(EXTERNAL_BACKENDS', EXTERNAL_BACKENDS[i].k)
                         = EXTERNAL_BACKENDS[i].v]_vars

\* apply has just returned with the interception installed, on a registry where
\* "ray" had been registered with another class than ray's own: "ray", "loky"
\* and the lazy "dask" factory are as they were registered, beside their
\* prefixed counterparts.
C14_Witness ==
    /\ last.op = "apply" /\ last.exc = "None" /\ patched
    /\ Has(BACKENDS, "ray") /\ Get(BACKENDS, "ray") = LokyBackend
    /\ Get(BACKENDS, "loky") = LokyBackend
    /\ Has(BACKENDS, "nested-ray") /\ Has(BACKENDS, "nested-loky")
    /\ Get(EXTERNAL_BACKENDS, "dask") = LazyFactory("dask", DaskDistributedBackend)
    /\ Has(EXTERNAL_BACKENDS, "nested-dask")

\* C15 (not revocable): apply(auto_register=True) that returns leaves the
\* interception installed; no step removes it, apply(auto_register=False)
\* included; and a registration of a non-prefixed name made right after such an
\* apply(auto_register=False) still registers the nested variant under the
\* prefixed name.
C15_NotRevocable ==
    /\ [][(last'.op = "apply" /\ last'.auto_register /\ last'.exc = "None")
              => patched']_vars
    /\ [][patched => patched']_vars
    /\ [][\A in \in RegisterInputs :
              (/\ patched
               /\ last.op = "apply" /\ ~last.auto_register
               /\ ~IsNestedName(in[1])
               /\ Register(in[1], in[2])) =>
                  /\ patched'
                  /\ Has(BACKENDS', NestedName(in[1]))
                  /\ IsNestedVariantOf(Get(BACKENDS', NestedName(in[1])),
                                       Get(BACKENDS', in[1]))]_vars

\* apply(auto_register=False) has just returned in a process where an earlier
\* apply(auto_register=True) had installed the interception, which is still
\* there, and "ray" is not registered yet.
C15_Witness ==
    /\ last.op = "apply" /\ ~last.auto_register /\ last.exc = "None"
    /\ patched
    /\ classCount["LokyBackend"] = 2
    /\ ~Has(BACKENDS, "ray")

\* C16 (no new validation layer): a registration of a non-prefixed name with
\* any factory, a class or not, raises nothing and leaves the name registered
\* with that factory, with the interception installed as without it; apply
\* raises nothing on a registry that holds such factories; and a registration
\* that does raise leaves neither the name nor its prefixed name registered by
\* it.
C16_NoNewValidation ==
    [][/\ \A in \in RegistryInputs :
              Register(in[1], in[2]) =>
                  /\ last'.exc = "None" =>
                         (Has(BACKENDS', in[1]) /\ Get(BACKENDS', in[1]) = in[2])
                  /\ last'.exc # "None" => BACKENDS' = BACKENDS
                  /\ last'.exc = "None"
       /\ last'.op = "apply" => last'.exc = "None"]_vars

====
